---- MODULE Spec2Model ----
(***************************************************************************)
(* Model of the OCR stage of comic-reader (src/ocr/run_ocr.py) and of the  *)
(* detection records written by src/bubbleExtractor/extract.py.            *)
(*                                                                         *)
(* Numbers.  Python floats are modelled as exact fixed-point rationals:    *)
(*   - a pixel coordinate is an integer count of 1/CoordUnit pixels;       *)
(*   - a recognizer score is an integer count of 1/(Stored*SubUnits),      *)
(*     Stored = 10^ConfidenceDigits, so scores carry more precision than   *)
(*     the 4 decimals the program keeps;                                   *)
(*   - a stored confidence (round(.., 4)) is an integer count of 1/Stored. *)
(* Python dicts are records; a missing key is a missing record field.      *)
(***************************************************************************)
EXTENDS Integers, Sequences, FiniteSets, TLC

VARIABLES image, bubble_data, confidence_threshold, text_regions, idx, crop,
          ocr_result, results, printed, output, pc, crop_calls, predict_calls,
          shadow, fn_in, fn_out

vars == <<image, bubble_data, confidence_threshold, text_regions, idx, crop,
          ocr_result, results, printed, output, pc, crop_calls, predict_calls,
          shadow, fn_in, fn_out>>

(***************************************************************************)
(* Bounds of the model.                                                    *)
(***************************************************************************)
MaxDetections == 2
MaxLines == 3
CoordUnit == 2
SubUnits == 10
MaxSlack == 2

(***************************************************************************)
(* Program constants.                                                      *)
(***************************************************************************)
MinCropSize == 20
ConfidenceDigits == 4
TextBubbleId == 1
TextFreeId == 2

Stored == 10 ^ ConfidenceDigits

None == [none |-> TRUE]

Range(s) == {s[i] : i \in DOMAIN s}

Max(a, b) == IF a >= b THEN a ELSE b

Min(a, b) == IF a <= b THEN a ELSE b

Abs(a) == IF a >= 0 THEN a ELSE -a

(***************************************************************************)
(* Python int(x) on a float: truncation toward zero.  x is in 1/CoordUnit  *)
(* pixels, the result is in whole pixels.                                  *)
(***************************************************************************)
\* A bug: the coordinate is rounded up instead of truncated.
PyInt_ceil(x) == -((-x) \div CoordUnit)

PyInt(x) == IF x >= 0 THEN x \div CoordUnit ELSE -((-x) \div CoordUnit)

(***************************************************************************)
(* Python round(n/d, k) for n >= 0, d > 0, counted in units of the k-th    *)
(* decimal: nearest unit, ties to the even one.                            *)
(***************************************************************************)
PyRound(n, d) ==
    LET q == n \div d
        r == n % d
    IN  IF 2 * r < d THEN q
        ELSE IF 2 * r > d THEN q + 1
        ELSE IF q % 2 = 0 THEN q ELSE q + 1

(***************************************************************************)
(* extract.py: label names of the detector.                                *)
(***************************************************************************)
LABELS == [i \in 0..2 |-> CASE i = 0 -> "bubble"
                            [] i = 1 -> "text_bubble"
                            [] i = 2 -> "text_free"]

LabelOf(label_id) ==
    IF label_id \in DOMAIN LABELS THEN LABELS[label_id] ELSE "unknown"

(***************************************************************************)
(* filter_text_regions: the detections of the document whose label_id is   *)
(* 1 or 2, in document order.  The Python list holds references to the     *)
(* document's own dicts, so a region is its position in the document.      *)
(***************************************************************************)
Detections(data) ==
    IF "detections" \in DOMAIN data THEN data.detections ELSE <<>>

\* A bug: bubbles (label_id 0) pass the filter too.
IsTextRegion_with_bubbles(det) ==
    /\ "label_id" \in DOMAIN det
    /\ det.label_id \in {0, TextBubbleId, TextFreeId}

IsTextRegion(det) ==
    /\ "label_id" \in DOMAIN det
    /\ det.label_id \in {TextBubbleId, TextFreeId}

RECURSIVE FilterFrom(_, _)
FilterFrom(dets, i) ==
    IF i > Len(dets) THEN <<>>
    ELSE IF IsTextRegion(dets[i]) THEN <<i>> \o FilterFrom(dets, i + 1)
    ELSE FilterFrom(dets, i + 1)

filter_text_regions(data) == FilterFrom(Detections(data), 1)

(***************************************************************************)
(* crop_region: the integer rectangle that is cropped, or None.            *)
(***************************************************************************)
ClampBox(img, bbox) ==
    [x1 |-> Max(0, PyInt(bbox.x1)),
     y1 |-> Max(0, PyInt(bbox.y1)),
     x2 |-> Min(img.width, PyInt(bbox.x2)),
     y2 |-> Min(img.height, PyInt(bbox.y2))]

\* A bug: the minimum size is compared with <=, a 20x20 region is rejected.
crop_region_strict(img, bbox) ==
    LET b == ClampBox(img, bbox)
    IN  IF b.x2 <= b.x1 \/ b.y2 <= b.y1 THEN None
        ELSE IF (b.x2 - b.x1) <= MinCropSize \/ (b.y2 - b.y1) <= MinCropSize
             THEN None
        ELSE b

crop_region(img, bbox) ==
    LET b == ClampBox(img, bbox)
    IN  IF b.x2 <= b.x1 \/ b.y2 <= b.y1 THEN None
        ELSE IF (b.x2 - b.x1) < MinCropSize \/ (b.y2 - b.y1) < MinCropSize
             THEN None
        ELSE b

(***************************************************************************)
(* What ocr.predict can do.  kind:                                         *)
(*   "raise"             predict raises an Exception                       *)
(*   "none"              returns None                                      *)
(*   "empty"             returns []                                        *)
(*   "first_empty"       returns [x] with x falsy ({} or None)             *)
(*   "not_subscriptable" returns a truthy object without indexing          *)
(*   "first_not_dict"    returns [x] with x truthy and without .get        *)
(*   "dict"              returns [res], res a non-empty dict; rec_texts    *)
(*                       and rec_scores may each be missing                *)
(* A text is a string or NotAString (an element str.join rejects); a score *)
(* is a number of 1/(Stored*SubUnits) in [0, 1] or NonNumeric, a value     *)
(* outside that range standing for an element float() raises on.           *)
(***************************************************************************)
NonNumeric == -(Stored * SubUnits) - 1

NotAString == "<not-a-str>"

ErrorResult(msg) ==
    [text_lines |-> <<>>, full_text |-> "", avg_confidence |-> 0,
     error |-> msg]

ZipLen(res) ==
    Min(IF "rec_texts" \in DOMAIN res THEN Len(res.rec_texts) ELSE 0,
        IF "rec_scores" \in DOMAIN res THEN Len(res.rec_scores) ELSE 0)

TextLines(res) ==
    [i \in 1..ZipLen(res) |->
        [text |-> res.rec_texts[i],
         confidence |-> PyRound(res.rec_scores[i], SubUnits)]]

RECURSIVE SumScores(_, _)
SumScores(scores, n) ==
    IF n = 0 THEN 0 ELSE scores[n] + SumScores(scores, n - 1)

RECURSIVE SumRounded(_, _)
SumRounded(scores, n) ==
    IF n = 0 THEN 0
    ELSE PyRound(scores[n], SubUnits) * SubUnits + SumRounded(scores, n - 1)

RECURSIVE Join(_, _)
Join(lines, n) ==
    IF n = 0 THEN ""
    ELSE IF n = 1 THEN lines[1].text
    ELSE Join(lines, n - 1) \o "\n" \o lines[n].text

\* A bug: the total is taken over the rounded line confidences.
total_confidence_rounded(res, n) == SumRounded(res.rec_scores, n)

\* line 95: the total of float(score) over the n zipped pairs
total_confidence(res, n) == SumScores(res.rec_scores, n)

\* A bug: the exception handler keeps the lines collected before the failure.
ExtractResult_partial(res) ==
    LET n == ZipLen(res)
        bad == {i \in 1..n : res.rec_scores[i] = NonNumeric}
    IN  IF bad # {}
        THEN LET k == CHOOSE i \in bad : \A j \in bad : i <= j
             IN  [text_lines |-> SubSeq(TextLines(res), 1, k - 1),
                  full_text |-> "", avg_confidence |-> 0,
                  error |-> "OCR failed: could not convert to float"]
        ELSE IF \E i \in 1..n : res.rec_texts[i] = NotAString
        THEN ErrorResult("OCR failed: expected str instance")
        ELSE [text_lines |-> TextLines(res),
              full_text |-> Join(TextLines(res), n),
              avg_confidence |->
                  IF n > 0
                  THEN PyRound(total_confidence(res, n), n * SubUnits)
                  ELSE 0]

(***************************************************************************)
(* run_ocr_on_crop, lines 84-109, on the non-empty dict res = result[0]:   *)
(* float(score) raises inside the loop, str.join raises after it, and the  *)
(* handler of lines 111-117 turns either into an error result.             *)
(***************************************************************************)
ExtractResult(res) ==
    LET n == ZipLen(res)
    IN  IF \E i \in 1..n : res.rec_scores[i] = NonNumeric
        THEN ErrorResult("OCR failed: could not convert to float")
        ELSE IF \E i \in 1..n : res.rec_texts[i] = NotAString
        THEN ErrorResult("OCR failed: expected str instance")
        ELSE
          LET text_lines == TextLines(res)
              avg_confidence ==
                  IF n > 0
                  THEN PyRound(total_confidence(res, n), n * SubUnits)
                  ELSE 0
          IN  [text_lines |-> text_lines,
               full_text |-> Join(text_lines, n),
               avg_confidence |-> avg_confidence]

(***************************************************************************)
(* run_ocr_on_crop, as a function of what ocr.predict does on the crop.    *)
(***************************************************************************)
run_ocr_on_crop(predict) ==
    IF predict.kind = "raise" THEN ErrorResult("OCR failed: predict raised")
    ELSE IF predict.kind \in {"none", "empty"}
         THEN ErrorResult("No text detected")
    ELSE IF predict.kind = "not_subscriptable"
         THEN ErrorResult("OCR failed: object is not subscriptable")
    ELSE IF predict.kind = "first_empty" THEN ErrorResult("No text detected")
    ELSE IF predict.kind = "first_not_dict"
         THEN ErrorResult("OCR failed: object has no attribute 'get'")
    ELSE ExtractResult(predict.res)

(***************************************************************************)
(* process_image, lines 160-192: the progress message of one region and    *)
(* the record appended for it.                                             *)
(***************************************************************************)
InvalidCropResult == ErrorResult("Invalid crop region")

StatusMessage(r, thr) ==
    IF "error" \in DOMAIN r THEN "ERROR"
    ELSE IF r.avg_confidence < thr THEN "LOW CONFIDENCE"
    ELSE "OK"

result_entry(detection, r) ==
    [label |-> detection.label,
     label_id |-> detection.label_id,
     confidence |-> detection.confidence,
     bbox |-> detection.bbox,
     ocr_result |-> r]

BuildOutput(img, res, thr) ==
    [image_info |-> [width |-> img.width, height |-> img.height],
     detections |-> res,
     ocr_config |-> [lang |-> "chinese_cht", model |-> "paddleocr",
                     version |-> "3.3.2", confidence_threshold |-> thr]]

(***************************************************************************)
(* Inputs.                                                                 *)
(***************************************************************************)
ImageSizes ==
    {[width |-> MinCropSize, height |-> MinCropSize],
     [width |-> MinCropSize + MaxSlack, height |-> MinCropSize + MaxSlack],
     [width |-> MinCropSize - 1, height |-> MinCropSize + MaxSlack],
     [width |-> MinCropSize + MaxSlack, height |-> MinCropSize - 1]}

Px(n) == n * CoordUnit

Coords ==
    (-(CoordUnit + 1) .. (CoordUnit + 1))
    \cup (Px(MinCropSize - 1) .. Px(MinCropSize + 1))
    \cup {Px(MinCropSize + MaxSlack + 1)}

Boxes == [x1 : Coords, y1 : Coords, x2 : Coords, y2 : Coords]

Box(a, b, c, d) == [x1 |-> a, y1 |-> b, x2 |-> c, y2 |-> d]

Conf(n) == n * (Stored \div 10)

Score(n) == Conf(n) * SubUnits

Thresholds == {Conf(5), Conf(10)}

\* Detection records as extract.py writes them, and one without label_id.
Det(id, c, b) ==
    [label |-> LabelOf(id), label_id |-> id, confidence |-> c, bbox |-> b]

DetectionPalette ==
    {Det(1, Conf(9), Box(0, 0, Px(MinCropSize), Px(MinCropSize))),
     Det(2, Conf(8), Box(-(CoordUnit + 1), -1, Px(MinCropSize) + 1,
                         Px(MinCropSize + MaxSlack + 1))),
     Det(1, Conf(7), Box(0, 0, Px(MinCropSize) - 1, Px(MinCropSize))),
     Det(2, Conf(6), Box(Px(MinCropSize), Px(MinCropSize), 0, 0)),
     Det(0, Conf(4), Box(0, 0, Px(MinCropSize), Px(MinCropSize))),
     Det(3, Conf(3), Box(0, 0, Px(MinCropSize), Px(MinCropSize))),
     [label |-> "text_bubble", confidence |-> Conf(2),
      bbox |-> Box(0, 0, Px(MinCropSize), Px(MinCropSize))]}

RECURSIVE SeqsUpTo(_, _)
SeqsUpTo(S, n) ==
    IF n = 0 THEN {<<>>}
    ELSE LET shorter == SeqsUpTo(S, n - 1)
         IN  shorter \cup {Append(s, e) : s \in shorter, e \in S}

Documents ==
    {[model |-> "detector"]}
    \cup {[model |-> "detector", detections |-> d] :
            d \in SeqsUpTo(DetectionPalette, MaxDetections)}

Texts == {"", "a", NotAString}

ScoreValues ==
    {0, (SubUnits - 1) \div 2, SubUnits - 1, Score(5), Score(7), Score(9),
     NonNumeric}

PredictKinds ==
    {[kind |-> k] : k \in {"raise", "none", "empty", "first_empty",
                           "not_subscriptable", "first_not_dict"}}

DictResult(res) == [kind |-> "dict", res |-> res]

\* Every outcome of ocr.predict with at most MaxLines texts and scores.
PredictOutcomes ==
    PredictKinds
    \cup {DictResult([input_path |-> "crop"])}
    \cup {DictResult([input_path |-> "crop", rec_texts |-> t]) :
            t \in SeqsUpTo(Texts, MaxLines)}
    \cup {DictResult([input_path |-> "crop", rec_scores |-> s]) :
            s \in SeqsUpTo(ScoreValues, MaxLines)}
    \cup {DictResult([input_path |-> "crop", rec_texts |-> t,
                      rec_scores |-> s]) :
            t \in SeqsUpTo(Texts, MaxLines),
            s \in SeqsUpTo(ScoreValues, MaxLines)}

\* The outcomes the whole-run specifications draw from: one of each shape.
PredictPalette ==
    PredictKinds
    \cup {DictResult([input_path |-> "crop"]),
          DictResult([input_path |-> "crop", rec_texts |-> <<>>,
                      rec_scores |-> <<>>]),
          DictResult([input_path |-> "crop", rec_texts |-> <<"a">>,
                      rec_scores |-> <<Score(9)>>]),
          DictResult([input_path |-> "crop", rec_texts |-> <<"a", "">>,
                      rec_scores |-> <<SubUnits - 1>>]),
          DictResult([input_path |-> "crop", rec_texts |-> <<"a", "a">>,
                      rec_scores |-> <<Score(7), NonNumeric>>])}

PipelineImages ==
    {[width |-> MinCropSize, height |-> MinCropSize],
     [width |-> MinCropSize + MaxSlack, height |-> MinCropSize + MaxSlack]}

NoShadow ==
    [confidence_threshold |-> 0, results |-> <<>>, printed |-> <<>>,
     output |-> None]

(***************************************************************************)
(* process_image.  State after the arguments are bound and before the      *)
(* first statement runs.  shadow is a second run of process_image on the   *)
(* same image, document and recognizer with its own threshold; it is used  *)
(* by SpecThreshold only.  fn_in and fn_out are used by the specifications *)
(* of the single functions only.                                           *)
(***************************************************************************)
InitRun ==
    /\ image \in PipelineImages
    /\ bubble_data \in Documents
    /\ confidence_threshold \in Thresholds
    /\ text_regions = <<>>
    /\ idx = 1
    /\ crop = None
    /\ ocr_result = None
    /\ results = <<>>
    /\ printed = <<>>
    /\ output = None
    /\ pc = "start"
    /\ crop_calls = <<>>
    /\ predict_calls = <<>>
    /\ fn_in = None
    /\ fn_out = None

Init ==
    /\ InitRun
    /\ shadow = NoShadow

Detection == Detections(bubble_data)[text_regions[idx]]

\* lines 138-159: load the inputs, filter, create the recognizer
FilterBody ==
    /\ pc = "start"
    /\ text_regions' = filter_text_regions(bubble_data)
    /\ pc' = "loop"
    /\ UNCHANGED <<image, bubble_data, confidence_threshold, idx, crop,
                   ocr_result, results, printed, output, crop_calls,
                   predict_calls, fn_in, fn_out>>

\* lines 160-173: crop the next region; an invalid crop gets its result here
CropBody ==
    /\ pc = "loop"
    /\ idx <= Len(text_regions)
    /\ crop' = crop_region(image, Detection.bbox)
    /\ crop_calls' = Append(crop_calls, text_regions[idx])
    /\ IF crop' = None
       THEN /\ ocr_result' = InvalidCropResult
            /\ printed' = Append(printed, "SKIPPED (invalid crop)")
            /\ pc' = "append"
       ELSE /\ pc' = "predict"
            /\ UNCHANGED <<ocr_result, printed>>
    /\ UNCHANGED <<image, bubble_data, confidence_threshold, text_regions,
                   idx, results, output, predict_calls, fn_in, fn_out>>

\* lines 174-182: the blocking recognizer call and its progress message
PredictBody(p) ==
    /\ pc = "predict"
    /\ ocr_result' = run_ocr_on_crop(p)
    /\ predict_calls' =
         Append(predict_calls, [region |-> text_regions[idx], predict |-> p])
    /\ printed' = Append(printed, StatusMessage(ocr_result', confidence_threshold))
    /\ pc' = "append"
    /\ UNCHANGED <<image, bubble_data, confidence_threshold, text_regions,
                   idx, crop, results, output, crop_calls, fn_in, fn_out>>

\* lines 184-192: append the record, go to the next region
AppendBody ==
    /\ pc = "append"
    /\ results' = Append(results, result_entry(Detection, ocr_result))
    /\ idx' = idx + 1
    /\ pc' = "loop"
    /\ UNCHANGED <<image, bubble_data, confidence_threshold, text_regions,
                   crop, ocr_result, printed, output, crop_calls,
                   predict_calls, fn_in, fn_out>>

\* lines 194-212: build and return the output document
ReturnBody ==
    /\ pc = "loop"
    /\ idx > Len(text_regions)
    /\ output' = BuildOutput(image, results, confidence_threshold)
    /\ pc' = "done"
    /\ UNCHANGED <<image, bubble_data, confidence_threshold, text_regions,
                   idx, crop, ocr_result, results, printed, crop_calls,
                   predict_calls, fn_in, fn_out>>

Filter == FilterBody /\ UNCHANGED shadow

\* A bug: a region whose recognition failed is sent to the recognizer again.
AppendStep_retry ==
    /\ pc = "append"
    /\ IF /\ "error" \in DOMAIN ocr_result
          /\ ocr_result.error # "Invalid crop region"
          /\ Len(predict_calls) <= Len(results)
       THEN /\ pc' = "predict"
            /\ UNCHANGED <<results, idx>>
       ELSE /\ results' = Append(results, result_entry(Detection, ocr_result))
            /\ idx' = idx + 1
            /\ pc' = "loop"
    /\ UNCHANGED <<image, bubble_data, confidence_threshold, text_regions,
                   crop, ocr_result, printed, output, crop_calls,
                   predict_calls, fn_in, fn_out, shadow>>

\* A bug: a region whose recognition failed gets no record.
AppendStep_drop_failed ==
    /\ pc = "append"
    /\ results' = IF "error" \in DOMAIN ocr_result
                     /\ ocr_result.error # "Invalid crop region"
                  THEN results
                  ELSE Append(results, result_entry(Detection, ocr_result))
    /\ idx' = idx + 1
    /\ pc' = "loop"
    /\ UNCHANGED <<image, bubble_data, confidence_threshold, text_regions,
                   crop, ocr_result, printed, output, crop_calls,
                   predict_calls, fn_in, fn_out, shadow>>

CropStep == CropBody /\ UNCHANGED shadow

PredictStep == \E p \in PredictPalette : PredictBody(p) /\ UNCHANGED shadow

AppendStep == AppendBody /\ UNCHANGED shadow

Return == ReturnBody /\ UNCHANGED shadow

Next == Filter \/ CropStep \/ PredictStep \/ AppendStep \/ Return

Spec == Init /\ [][Next]_vars

\* process_image is straight-line sequential code: it always takes its next step.
FairSpec == Spec /\ WF_vars(Next)

(***************************************************************************)
(* Specifications of the single functions: the argument is drawn in the    *)
(* initial state, the one action is the call.                              *)
(***************************************************************************)
Idle ==
    /\ image = [width |-> MinCropSize, height |-> MinCropSize]
    /\ bubble_data = [model |-> "detector"]
    /\ confidence_threshold = 0
    /\ text_regions = <<>>
    /\ idx = 1
    /\ crop = None
    /\ ocr_result = None
    /\ results = <<>>
    /\ printed = <<>>
    /\ output = None
    /\ crop_calls = <<>>
    /\ predict_calls = <<>>
    /\ shadow = NoShadow
    /\ fn_out = None
    /\ pc = "call"

UnchangedRun ==
    UNCHANGED <<image, bubble_data, confidence_threshold, text_regions, idx,
                crop, ocr_result, results, printed, output, crop_calls,
                predict_calls, shadow, fn_in>>

InitCrop == Idle /\ fn_in \in [image : ImageSizes, bbox : Boxes]

CropCall ==
    /\ pc = "call"
    /\ fn_out' = crop_region(fn_in.image, fn_in.bbox)
    /\ pc' = "returned"
    /\ UnchangedRun

SpecCrop == InitCrop /\ [][CropCall]_vars

InitOcr == Idle /\ fn_in \in [predict : PredictOutcomes]

OcrCall ==
    /\ pc = "call"
    /\ fn_out' = run_ocr_on_crop(fn_in.predict)
    /\ pc' = "returned"
    /\ UnchangedRun

SpecOcr == InitOcr /\ [][OcrCall]_vars

(***************************************************************************)
(* Two runs of process_image on the same image, document and recognizer    *)
(* outcomes, one with confidence_threshold and one (shadow) with           *)
(* shadow.confidence_threshold, step by step.                              *)
(***************************************************************************)
InitThreshold ==
    /\ InitRun
    /\ shadow \in {[NoShadow EXCEPT !.confidence_threshold = t] :
                     t \in Thresholds}

CropStepBoth ==
    /\ CropBody
    /\ shadow' = [shadow EXCEPT !.printed =
                    IF crop' = None THEN Append(@, "SKIPPED (invalid crop)")
                    ELSE @]

\* A bug: a region under the threshold loses its text.
AppendStepBoth_drop ==
    /\ AppendBody
    /\ shadow' = [shadow EXCEPT !.results =
         Append(@, result_entry(Detection,
            IF /\ "error" \notin DOMAIN ocr_result
               /\ ocr_result.avg_confidence < shadow.confidence_threshold
            THEN ErrorResult("Low confidence")
            ELSE ocr_result))]

PredictStepBoth ==
    \E p \in PredictPalette :
        /\ PredictBody(p)
        /\ shadow' = [shadow EXCEPT !.printed =
             Append(@, StatusMessage(ocr_result', shadow.confidence_threshold))]

AppendStepBoth ==
    /\ AppendBody
    /\ shadow' = [shadow EXCEPT !.results =
                    Append(@, result_entry(Detection, ocr_result))]

ReturnBoth ==
    /\ ReturnBody
    /\ shadow' = [shadow EXCEPT !.output =
         BuildOutput(image, shadow.results, shadow.confidence_threshold)]

NextThreshold ==
    Filter \/ CropStepBoth \/ PredictStepBoth \/ AppendStepBoth \/ ReturnBoth

SpecThreshold == InitThreshold /\ [][NextThreshold]_vars

(***************************************************************************)
(* Properties.                                                             *)
(***************************************************************************)
Doc == Detections(bubble_data)

\* positions of the document's detections labelled 1 or 2
TextIdx ==
    {i \in DOMAIN Doc : "label_id" \in DOMAIN Doc[i] /\ Doc[i].label_id \in {1, 2}}

\* the k-th of them in document order
KthText(k) ==
    CHOOSE i \in TextIdx : Cardinality({j \in TextIdx : j <= i}) = k

HasError(r) == "error" \in DOMAIN r

PredictedRegions == {predict_calls[n].region : n \in DOMAIN predict_calls}

Carries(rec, det) ==
    /\ rec.label = det.label
    /\ rec.label_id = det.label_id
    /\ rec.confidence = det.confidence
    /\ rec.bbox = det.bbox

C1_Inv ==
    /\ Len(results) <= Cardinality(TextIdx)
    /\ \A k \in DOMAIN results : Carries(results[k], Doc[KthText(k)])
    /\ pc = "done" =>
         /\ output.detections = results
         /\ Len(output.detections) = Cardinality(TextIdx)

C1_Stable ==
    /\ Len(results') >= Len(results)
    /\ \A k \in DOMAIN results : results'[k] = results[k]

\* C1: the returned 'detections' has exactly one record per detection that
\* passed the text-label filter, in document order, each with that detection's
\* label, label_id, confidence and bbox, whatever the crop and the recognizer
\* did; no step removes or reorders a record.
C1_Theorem == [](C1_Inv) /\ [][C1_Stable]_vars

C1_Witness ==
    /\ pc = "done"
    /\ Len(results) = 2
    /\ \E k \in DOMAIN results :
         /\ HasError(results[k].ocr_result)
         /\ results[k].ocr_result.error = "OCR failed: predict raised"
    /\ \E k \in DOMAIN results : results[k].ocr_result.text_lines # <<>>

\* C2: a detection whose label_id is not 1 or 2 (0, unknown, missing) is never
\* passed to crop_region or to the recognizer and has no record in the output.
C2_Theorem ==
    /\ \A i \in DOMAIN Doc \ TextIdx :
         /\ i \notin Range(crop_calls)
         /\ i \notin PredictedRegions
    /\ \A k \in DOMAIN results : results[k].label_id \in {1, 2}
    /\ Len(results) <= Cardinality(TextIdx)
    /\ pc = "done" =>
         /\ \A k \in DOMAIN output.detections :
              output.detections[k].label_id \in {1, 2}
         /\ Len(output.detections) = Cardinality(TextIdx)

C2_Witness ==
    /\ pc = "done"
    /\ \E i \in DOMAIN Doc \ TextIdx : \E j \in TextIdx : i < j
    /\ predict_calls # <<>>

\* width and height of the box of the code after clamping to the image
ClampedWidth(det) == ClampBox(image, det.bbox).x2 - ClampBox(image, det.bbox).x1

ClampedHeight(det) == ClampBox(image, det.bbox).y2 - ClampBox(image, det.bbox).y1

TooSmall(det) == ClampedWidth(det) < 20 \/ ClampedHeight(det) < 20

\* C3: a text detection whose clamped box is under 20 wide or under 20 high
\* gets error "Invalid crop region", no lines, avg_confidence 0.0 and no
\* recognizer call; a clamped box of 20x20 or more gets the recognizer call.
C3_Theorem ==
    /\ \A k \in DOMAIN results :
         LET i == KthText(k)
             r == results[k].ocr_result
         IN  IF TooSmall(Doc[i])
             THEN /\ HasError(r)
                  /\ r.error = "Invalid crop region"
                  /\ r.text_lines = <<>>
                  /\ r.avg_confidence = 0
                  /\ i \notin PredictedRegions
             ELSE /\ i \in PredictedRegions
                  /\ HasError(r) => r.error # "Invalid crop region"
    /\ \A i \in PredictedRegions : ~TooSmall(Doc[i])

C3_Witness ==
    /\ pc = "done"
    /\ Len(results) = 2
    /\ \E k \in DOMAIN results :
         /\ ClampedWidth(Doc[KthText(k)]) = 19
         /\ ClampedHeight(Doc[KthText(k)]) >= 20
         /\ HasError(results[k].ocr_result)
         /\ results[k].ocr_result.error = "Invalid crop region"
    /\ \E k \in DOMAIN results :
         /\ ClampedWidth(Doc[KthText(k)]) = 20
         /\ ClampedHeight(Doc[KthText(k)]) = 20
         /\ KthText(k) \in PredictedRegions

\* the outcomes of ocr.predict that are failures: an exception, an empty
\* result, a malformed result
FailedPredict(p) ==
    \/ p.kind # "dict"
    \/ /\ p.kind = "dict"
       /\ \/ "rec_texts" \notin DOMAIN p.res
          \/ "rec_scores" \notin DOMAIN p.res
          \/ \E i \in 1..ZipLen(p.res) : p.res.rec_scores[i] = NonNumeric

\* C4: run_ocr_on_crop turns every exception, empty result and malformed
\* output of ocr.predict into a result with 'error' set and no text_lines.
C4_Claim ==
    (pc = "returned" /\ FailedPredict(fn_in.predict)) =>
        (HasError(fn_out) /\ fn_out.text_lines = <<>>)

\* C5: in every result of run_ocr_on_crop, 'error' is present exactly when
\* text_lines is empty.
C5_Claim ==
    pc = "returned" => (HasError(fn_out) <=> fn_out.text_lines = <<>>)

WellFormed(r) ==
    /\ HasError(r) => (r.text_lines = <<>> /\ r.avg_confidence = 0)
    /\ ~(~HasError(r) /\ r.text_lines = <<>> /\ r.avg_confidence # 0)

\* C6: every ocr_result in the output of process_image with 'error' set has
\* no text_lines and avg_confidence 0.0, and none has no error, no text_lines
\* and a non-zero avg_confidence.
C6_Theorem ==
    /\ \A k \in DOMAIN results : WellFormed(results[k].ocr_result)
    /\ pc = "append" => WellFormed(ocr_result)
    /\ pc = "done" =>
         \A k \in DOMAIN output.detections :
             WellFormed(output.detections[k].ocr_result)

C6_Witness ==
    /\ pc = "done"
    /\ \E k \in DOMAIN output.detections :
         LET r == output.detections[k].ocr_result
         IN  HasError(r) /\ r.error = "OCR failed: could not convert to float"
    /\ \E k \in DOMAIN output.detections :
         LET r == output.detections[k].ocr_result
         IN  ~HasError(r) /\ r.text_lines = <<>>

WithoutThreshold(out) ==
    [out EXCEPT !.ocr_config.confidence_threshold = 0]

RECURSIVE SumLineConfidence(_, _)
SumLineConfidence(lines, n) ==
    IF n = 0 THEN 0 ELSE lines[n].confidence + SumLineConfidence(lines, n - 1)

RawScores(p) ==
    IF p.kind = "dict" /\ "rec_scores" \in DOMAIN p.res
    THEN p.res.rec_scores ELSE <<>>

RawTexts(p) ==
    IF p.kind = "dict" /\ "rec_texts" \in DOMAIN p.res
    THEN p.res.rec_texts ELSE <<>>

\* C8 as claimed: avg_confidence is the mean of the confidences of the
\* returned text_lines at 4 decimals (a 4-decimal value nearest to that mean,
\* whichever way a tie is rounded), and 0.0 without lines.
C8_Claim ==
    pc = "returned" =>
        LET n == Len(fn_out.text_lines)
            a == fn_out.avg_confidence
        IN  IF n = 0 THEN a = 0
            ELSE 2 * Abs(a * n - SumLineConfidence(fn_out.text_lines, n)) <= n

\* C8 amended: avg_confidence is the 4-decimal value nearest to the mean of
\* the recognizer's scores of the zipped lines (0.0 without lines), which is
\* within one unit of the 4th decimal of the mean of the stored confidences;
\* confidences 0.9, 0.7, 0.5 give 0.7.
C8_Theorem ==
    pc = "returned" =>
        LET n == Len(fn_out.text_lines)
            a == fn_out.avg_confidence
            raw == RawScores(fn_in.predict)
        IN  /\ n = 0 => a = 0
            /\ n > 0 =>
                 /\ n = Min(Len(raw), Len(RawTexts(fn_in.predict)))
                 /\ 2 * Abs(a * n * SubUnits - SumScores(raw, n))
                        <= n * SubUnits
                 /\ Abs(a * n - SumLineConfidence(fn_out.text_lines, n)) <= n
            /\ (~HasError(fn_out) /\ raw = <<Score(9), Score(7), Score(5)>>
                  /\ n = 3) => a = Conf(7)

C8_Witness ==
    /\ pc = "returned"
    /\ Len(fn_out.text_lines) = 3
    /\ fn_out.text_lines[1].confidence = 0
    /\ fn_out.text_lines[2].confidence = 0
    /\ fn_out.text_lines[3].confidence = 1
    /\ fn_out.avg_confidence = 1

Floor(x) == x \div CoordUnit

Ceil(x) == -((-x) \div CoordUnit)

Trunc(x) == IF x >= 0 THEN Floor(x) ELSE Ceil(x)

\* crop_region as a reference: accept exactly the boxes at least 20 x 20
RefCrop(a, b, c, d) ==
    IF c - a >= 20 /\ d - b >= 20
    THEN [x1 |-> a, y1 |-> b, x2 |-> c, y2 |-> d]
    ELSE None

\* C9 as claimed: crop_region uses max(0, floor(x1)), max(0, floor(y1)),
\* min(width, ceil(x2)), min(height, ceil(y2)).
C9_Claim ==
    pc = "returned" =>
        fn_out = RefCrop(Max(0, Floor(fn_in.bbox.x1)),
                         Max(0, Floor(fn_in.bbox.y1)),
                         Min(fn_in.image.width, Ceil(fn_in.bbox.x2)),
                         Min(fn_in.image.height, Ceil(fn_in.bbox.y2)))

\* C9 amended: crop_region uses max(0, floor(x1)), max(0, floor(y1)),
\* min(width, trunc(x2)), min(height, trunc(y2)), trunc rounding toward zero:
\* the upper corner is not rounded up.
C9_Theorem ==
    pc = "returned" =>
        fn_out = RefCrop(Max(0, Floor(fn_in.bbox.x1)),
                         Max(0, Floor(fn_in.bbox.y1)),
                         Min(fn_in.image.width, Trunc(fn_in.bbox.x2)),
                         Min(fn_in.image.height, Trunc(fn_in.bbox.y2)))

C9_Witness ==
    /\ pc = "returned"
    /\ fn_in.bbox.x1 = -1
    /\ fn_in.bbox.y1 = 0
    /\ fn_in.bbox.x2 = Px(20) - 1
    /\ fn_in.bbox.y2 = Px(20)
    /\ fn_in.image.width > 20
    /\ fn_out = None

RegionState(k) ==
    IF k > Len(results) THEN "Pending"
    ELSE LET r == results[k].ocr_result
         IN  IF HasError(r) /\ r.error = "Invalid crop region" THEN "Skipped"
             ELSE IF HasError(r) THEN "RecognizedError"
             ELSE "RecognizedOk"

Increasing(s) == \A m, n \in DOMAIN s : m < n => s[m] < s[n]

PredictedSeq == [n \in DOMAIN predict_calls |-> predict_calls[n].region]

C10_Inv ==
    /\ Increasing(crop_calls)
    /\ Increasing(PredictedSeq)
    /\ \A n \in DOMAIN crop_calls : crop_calls[n] = KthText(n)
    /\ Len(crop_calls) - Len(results) \in {0, 1}
    /\ PredictedRegions \subseteq Range(crop_calls)
    /\ pc = "predict" =>
         /\ Len(crop_calls) = Len(results) + 1
         /\ crop_calls[Len(crop_calls)] \notin PredictedRegions
    /\ \A k \in DOMAIN results :
         (RegionState(k) = "Skipped") <=> (KthText(k) \notin PredictedRegions)
    /\ pc = "done" =>
         /\ \A k \in 1..Cardinality(TextIdx) : RegionState(k) # "Pending"
         /\ output.detections = results

C10_Once ==
    /\ \A k \in 1..Cardinality(TextIdx) :
         RegionState(k) # "Pending" => RegionState(k)' = RegionState(k)
    /\ crop_calls' # crop_calls =>
         /\ Len(crop_calls) = Len(results)
         /\ crop_calls' = Append(crop_calls, KthText(Len(results) + 1))
    /\ predict_calls' # predict_calls =>
         /\ Len(predict_calls') = Len(predict_calls) + 1
         /\ predict_calls'[Len(predict_calls')].region =
              KthText(Len(results) + 1)
         /\ crop_calls[Len(crop_calls)] = KthText(Len(results) + 1)
         /\ results' = results

\* C10: every filtered detection goes once from Pending to one of Skipped,
\* Recognized(ok), Recognized(error) and stays there; the recognizer is called
\* at most once per detection, in document order, and has returned before the
\* next detection is touched; the run ends with the assembled document.
C10_Theorem == [](C10_Inv) /\ [][C10_Once]_vars /\ <>(pc = "done")

C10_Witness ==
    /\ pc = "done"
    /\ Len(results) = 2
    /\ RegionState(1) = "RecognizedError"
    /\ RegionState(2) \in {"Skipped", "RecognizedOk"}

====
